---- MODULE Spec2Model ----
(***************************************************************************)
(* Model of the bio crate's Buffer (crate/bio/src/buffer3): a backing      *)
(* store with a span (position, limit), the copy and compaction            *)
(* strategies chosen by the constructor, the Source / Sink contract, and   *)
(* the transfuse loop that drives a producer into a consumer through one   *)
(* buffer.  Offsets are 0-based as in the source; sequences are 1-based.   *)
(***************************************************************************)
EXTENDS Integers, Sequences, FiniteSets, TLC

\* ---------------------------------------------------------------- bounds
MaxLen == 3      \* largest backing store of the working buffer
MaxSrc == 3      \* most elements a producer holds
MaxSnk == 3      \* largest consumer capacity
MaxView == 2     \* longest external view handed to copy_into / copy_from
MaxSlots == 3    \* slots of the destination handed to a flow's source
MaxCalls == 3    \* calls of a flow's source in one run

VARIABLES
    buf,          \* the working Buffer: [data, span]
    kind,         \* constructor used: "from" | "from_clone" | "from_copy"
    src,          \* the producer's store: [data, span]
    srcKind,      \* "buffer" (Buffer as Source) | "read" (stream::Read over a
                  \* slice) | "io" (stream::Read over a reader that may fail)
                  \* | "repeat" (stream::Read over a reader that never ends)
    snk,          \* the consumer's store: [data, span]
    snkKind,      \* "buffer" (Buffer as Sink) | "write" (stream::Write over a
                  \* slice) | "io" (stream::Write over a writer that may fail)
    pc,           \* "idle" | "rec" (inside transfuse_rec) | "done" (Ok(total))
                  \* | "failed" (Err)
    source_done,  \* argument of transfuse_rec
    total,        \* argument of transfuse_rec
    op,           \* name of the last operation performed
    pre,          \* the working buffer before the last operation
    start,        \* buf, src, snk as they were when transfuse was called
    it,           \* observations of the last transfuse_rec frame and of the run
    ret,          \* what the last operation returned: [ok, n, view]
    ec,           \* EachConsecutive.1, the Option<Buffer> holding the window
    slots,        \* the destination of the last EachConsecutive::source call
    calls,        \* calls of EachConsecutive::source made so far
    fl            \* observations of the flow: [up, end, done, doneAt, emitted,
                  \* ds]

vars == <<buf, kind, src, srcKind, snk, snkKind, pc, source_done, total,
          op, pre, start, it, ret, ec, slots, calls, fl>>

\* ------------------------------------------------------------- helpers
Min(a, b) == IF a <= b THEN a ELSE b

\* slice[a..b] with 0-based, end-exclusive offsets
Slice(s, a, b) == [i \in 1..(b - a) |-> s[a + i]]

Zeros(n) == [i \in 1..n |-> 0]

Iota(n) == [i \in 1..n |-> i]

\* ------------------------------------------------------------- Buffer
new(data) == [data |-> data, span |-> <<0, 0>>]

available(b) == b.span[2] - b.span[1]

is_empty(b) == available(b) = 0

\* a clear that also zeroes the store
clear_wiping(b) == [data |-> [i \in 1..Len(b.data) |-> 0], span |-> <<0, 0>>]

clear(b) == [b EXCEPT !.span = <<0, 0>>]

len(b) == Len(b.data)

as_source(b) == [b EXCEPT !.span = <<0, len(b)>>]

as_read(b) == Slice(b.data, b.span[1], b.span[2])

free(b) == len(b) - b.span[2]

is_full(b) == free(b) = 0

\* a write area that starts over at the front once the store is used up
as_write_wrapping(b) ==
    IF b.span[2] = Len(b.data) THEN b.data
    ELSE Slice(b.data, b.span[2], Len(b.data))


as_write(b) == Slice(b.data, b.span[2], len(b))

\* ---------------------------------------------------- copy strategies
SCopy_copy_slice(dest, src_) == [i \in 1..Len(dest) |-> src_[i]]

RECURSIVE SClone_loop(_, _, _)
SClone_loop(dest, src_, i) ==
    IF i >= Len(src_) THEN dest
    ELSE SClone_loop([dest EXCEPT ![i + 1] = src_[i + 1]], src_, i + 1)

SClone_copy_slice(dest, src_) == SClone_loop(dest, src_, 0)

CopyStrategy(k) == IF k = "from_copy" THEN "SCopy"
                   ELSE IF k = "from_clone" THEN "SClone" ELSE "SNone"

CompactStrategy(k) == IF k = "from_copy" THEN "SCopy" ELSE "SNone"

\* Buffer::copy_slice: trims both views to the shorter length, copies, and
\* returns the count with the destination as it is afterwards.
copy_slice(k, dest, src_) ==
    LET n == Min(Len(dest), Len(src_))
        s == Slice(src_, 0, n)
        d == Slice(dest, 0, n)
        c == IF CopyStrategy(k) = "SCopy" THEN SCopy_copy_slice(d, s)
             ELSE SClone_copy_slice(d, s)
    IN [n |-> n, dest |-> c \o Slice(dest, n, Len(dest))]

\* a copy_into that leaves position where it was
copy_into_not_advancing(k, b, into) ==
    LET r == copy_slice(k, into, as_read(b))
    IN [n |-> r.n, into |-> r.dest, buf |-> b]

copy_into(k, b, into) ==
    LET r == copy_slice(k, into, as_read(b))
    IN [n |-> r.n, into |-> r.dest,
        buf |-> [b EXCEPT !.span = <<b.span[1] + r.n, b.span[2]>>]]

\* a copy_from that writes at the start of the store
copy_from_at_start(k, b, from) ==
    LET n == Min(free(b), Len(from))
        r == copy_slice(k, Slice(b.data, 0, n), from)
    IN [n |-> n,
        buf |-> [data |-> r.dest \o Slice(b.data, n, len(b)),
                 span |-> <<b.span[1], b.span[2] + n>>]]

copy_from(k, b, from) ==
    LET r == copy_slice(k, as_write(b), from)
    IN [n |-> r.n,
        buf |-> [data |-> Slice(b.data, 0, b.span[2]) \o r.dest,
                 span |-> <<b.span[1], b.span[2] + r.n>>]]

\* ------------------------------------------------ compaction strategies
\* a copy that runs from the last element of the area down to the first
RECURSIVE backward_loop(_, _, _)
backward_loop(slice, s, i) ==
    IF i = 0 THEN slice
    ELSE backward_loop([slice EXCEPT ![i] = slice[s + i]], s, i - 1)

SCopy_compact_within_backward(slice, s, e) == backward_loop(slice, s, e - s)

\* a shift that also wipes what lies behind the relocated area
SCopy_compact_within_wiping(slice, s, e) ==
    [i \in 1..Len(slice) |-> IF i <= e - s THEN slice[s + i] ELSE 0]

\* slice.copy_within(start..end, 0): memmove of the area to offset 0
SCopy_compact_within(slice, s, e) ==
    [i \in 1..Len(slice) |-> IF i <= e - s THEN slice[s + i] ELSE slice[i]]

swap(slice, i, j) == [slice EXCEPT ![i + 1] = slice[j + 1], ![j + 1] = slice[i + 1]]

\* a loop that runs over 0..end instead of 0..(end - start)
SNone_accesses_to_end(n, s, e) ==
    IF s = 0 \/ e = s THEN {}
    ELSE {[split |-> i + 1, dest |-> i, src |-> s - 1] : i \in 0..(e - 1)}

\* The accesses of SNone::compact_within on a slice of length n: iteration
\* i splits at i + 1, then indexes dest[i] and src[start - 1]; none after
\* the early return.
SNone_accesses(n, s, e) ==
    IF s = 0 \/ e = s THEN {}
    ELSE {[split |-> i + 1, dest |-> i, src |-> s - 1] : i \in 0..(e - s - 1)}

RECURSIVE SNone_loop(_, _, _, _)
SNone_loop(slice, s, n, i) ==
    IF i >= n THEN slice
    ELSE SNone_loop(swap(slice, i, s + i), s, n, i + 1)

\* a compaction that copies the area down instead of swapping
SNone_compact_within_copying(slice, s, e) ==
    [i \in 1..Len(slice) |-> IF i <= e - s THEN slice[s + i] ELSE slice[i]]

SNone_compact_within(slice, s, e) ==
    IF s = 0 \/ e = s THEN slice
    ELSE SNone_loop(slice, s, e - s, 0)

\* a compaction that is left out
compact_skipped(k, b) == b

\* compact without `*start = 0`
compact_keeping_start(k, b) ==
    [data |-> b.data, span |-> <<b.span[1], b.span[2] - b.span[1]>>]

\* compact without `*end -= *start`
compact_keeping_end(k, b) ==
    [data |-> b.data, span |-> <<0, b.span[2]>>]

\* Buffer::compact: relocate the unread area, then end -= start, start = 0
compact(k, b) ==
    LET s == b.span[1]
        e == b.span[2]
        d == IF CompactStrategy(k) = "SCopy"
             THEN SCopy_compact_within(b.data, s, e)
             ELSE SNone_compact_within(b.data, s, e)
    IN [data |-> d, span |-> <<0, e - s>>]


\* ------------------------------------------- Source / Sink contract
\* Source::source(into): the outcomes a producer can give for a destination.
\* A Buffer hands out its unread region through copy_into; a stream::Read
\* delegates to io::Read, which may fill only part of the destination and
\* gives 0 only when it is exhausted or the destination is empty.
\* An io::Read that fails has read nothing; one that never ends gives at
\* least one element (here the value 7) to every non-empty destination.
\* The trait does not bind an implementation to the destination's length:
\* "over" is a producer outside the contract, which fills the destination
\* with 7s and reports more than it was offered.
source(k, p, into) ==
    IF k = "buffer"
    THEN {LET r == copy_into("from_copy", p, into)
          IN [ok |-> TRUE, n |-> r.n, src |-> r.buf, into |-> r.into]}
    ELSE IF k = "over"
    THEN {[ok |-> TRUE, n |-> Len(into) + x, src |-> p,
           into |-> [i \in 1..Len(into) |-> 7]] : x \in 1..2}
    ELSE IF k = "repeat"
    THEN {[ok |-> TRUE, n |-> n, src |-> p,
           into |-> [i \in 1..n |-> 7] \o Slice(into, n, Len(into))]
          : n \in (IF Len(into) = 0 THEN {0} ELSE 1..Len(into))}
    ELSE LET m == Min(Len(into), available(p))
         IN {[ok |-> TRUE, n |-> n,
              src |-> [p EXCEPT !.span = <<p.span[1] + n, p.span[2]>>],
              into |-> Slice(as_read(p), 0, n) \o Slice(into, n, Len(into))]
             : n \in (IF m = 0 THEN {0} ELSE 1..m)}
            \cup (IF k = "io"
                  THEN {[ok |-> FALSE, n |-> 0, src |-> p, into |-> into]}
                  ELSE {})

\* Sink::sink(from): the outcomes a consumer can give for an offer.  A Buffer
\* takes what fits through copy_from; a stream::Write delegates to io::Write,
\* which accepts any prefix, possibly nothing (back-pressure).
\* An io::Write that fails has written nothing.  "over" is a consumer
\* outside the contract, which reports more than it was offered.
sink(k, s, from) ==
    IF k = "buffer"
    THEN {LET r == copy_from("from_copy", s, from)
          IN [ok |-> TRUE, n |-> r.n, snk |-> r.buf]}
    ELSE IF k = "over"
    THEN {[ok |-> TRUE, n |-> Len(from) + x, snk |-> s] : x \in 1..2}
    ELSE LET m == Min(Len(from), free(s))
         IN {[ok |-> TRUE, n |-> n,
              snk |-> [data |-> Slice(s.data, 0, s.span[2]) \o Slice(from, 0, n)
                                 \o Slice(s.data, s.span[2] + n, len(s)),
                       span |-> <<s.span[1], s.span[2] + n>>]]
             : n \in 0..m}
            \cup (IF k = "io"
                  THEN {[ok |-> FALSE, n |-> 0, snk |-> s]}
                  ELSE {})

\* Tap::tap_ok: the block runs on the count only when the result is Ok
tap_ok(ok, n) == IF ok THEN n ELSE 0

\* a read that never moves limit past the end of the store
read_clamping(b, k, p) ==
    {[ok |-> o.ok, n |-> o.n, src |-> o.src,
      buf |-> [data |-> Slice(b.data, 0, b.span[2]) \o o.into,
               span |-> <<b.span[1],
                          Min(b.span[2] + tap_ok(o.ok, o.n), len(b))>>]]
     : o \in source(k, p, as_write(b))}

\* a read that stores what it gets at the front of the store
read_at_front(b, k, p) ==
    {[ok |-> o.ok, n |-> o.n, src |-> o.src,
      buf |-> [data |-> Slice(o.into, 0, tap_ok(o.ok, o.n))
                         \o Slice(b.data, tap_ok(o.ok, o.n), len(b)),
               span |-> <<b.span[1], b.span[2] + tap_ok(o.ok, o.n)>>]]
     : o \in source(k, p, as_write(b))}

\* Buffer::read: from.source(self.as_write()).tap_ok(|n| self.span.1 += n)
read(b, k, p) ==
    {[ok |-> o.ok, n |-> o.n, src |-> o.src,
      buf |-> [data |-> Slice(b.data, 0, b.span[2]) \o o.into,
               span |-> <<b.span[1], b.span[2] + tap_ok(o.ok, o.n)>>]]
     : o \in source(k, p, as_write(b))}

\* a write that zeroes the elements it has handed over
write_consuming(b, k, s) ==
    {[ok |-> o.ok, n |-> o.n, snk |-> o.snk,
      buf |-> [data |-> [i \in 1..len(b) |->
                           IF i > b.span[1] /\ i <= b.span[1] + o.n
                           THEN 0 ELSE b.data[i]],
               span |-> <<b.span[1] + tap_ok(o.ok, o.n), b.span[2]>>]]
     : o \in sink(k, s, as_read(b))}

\* a write that takes the whole unread region as written when the sink fails
write_assuming_all(b, k, s) ==
    {[ok |-> o.ok, n |-> o.n, snk |-> o.snk,
      buf |-> [b EXCEPT !.span = <<b.span[1] + (IF o.ok THEN o.n
                                                        ELSE available(b)),
                                   b.span[2]>>]]
     : o \in sink(k, s, as_read(b))}

\* Buffer::write: into.sink(self.as_read()).tap_ok(|n| self.span.0 += n)
write(b, k, s) ==
    {[ok |-> o.ok, n |-> o.n, snk |-> o.snk,
      buf |-> [b EXCEPT !.span = <<b.span[1] + tap_ok(o.ok, o.n), b.span[2]>>]]
     : o \in sink(k, s, as_read(b))}

\* ------------------------------------------------------------ transfuse
\* a tail that adds the read count to the total
transfuse_tail_counting_reads(tot, r, w) ==
    IF r = 0 /\ w = 0
    THEN [done |-> TRUE, source_done |-> FALSE, total |-> tot]
    ELSE [done |-> FALSE, source_done |-> (r = 0), total |-> tot + r]

\* a tail that passes source_done = (read != 0)
transfuse_tail_inverted(tot, r, w) ==
    IF r = 0 /\ w = 0
    THEN [done |-> TRUE, source_done |-> FALSE, total |-> tot]
    ELSE [done |-> FALSE, source_done |-> (r # 0), total |-> tot + w]

\* a tail that never sets source_done
transfuse_tail_rereading(tot, r, w) ==
    IF r = 0 /\ w = 0
    THEN [done |-> TRUE, source_done |-> FALSE, total |-> tot]
    ELSE [done |-> FALSE, source_done |-> FALSE, total |-> tot + w]

\* a tail that passes write instead of total + write
transfuse_tail_forgetting(tot, r, w) ==
    IF r = 0 /\ w = 0
    THEN [done |-> TRUE, source_done |-> FALSE, total |-> tot]
    ELSE [done |-> FALSE, source_done |-> (r = 0), total |-> w]

\* a tail that returns only once something has been written out
transfuse_tail_awaiting_output(tot, r, w) ==
    IF r = 0 /\ w = 0 /\ tot > 0
    THEN [done |-> TRUE, source_done |-> FALSE, total |-> tot]
    ELSE [done |-> FALSE, source_done |-> (r = 0), total |-> tot + w]

\* The tail of transfuse_rec: return Ok(total) on a double zero, otherwise
\* recurse with source_done = (read == 0) and total + write.
transfuse_tail(tot, r, w) ==
    IF r = 0 /\ w = 0
    THEN [done |-> TRUE, source_done |-> FALSE, total |-> tot]
    ELSE [done |-> FALSE, source_done |-> (r = 0), total |-> tot + w]

\* The read step of transfuse_rec, after compaction: skipped once source_done;
\* `buffer.read(&mut source)?` hands an Err on to the outcome.
transfuse_read(sd, b, k, p) ==
    IF sd
    THEN {[ok |-> TRUE, n |-> 0, src |-> p, buf |-> b, invoked |-> FALSE]}
    ELSE {[ok |-> o.ok, n |-> o.n, src |-> o.src, buf |-> o.buf,
           invoked |-> TRUE]
          : o \in read(b, k, p)}

\* a write step that runs before the read step's result is looked at
transfuse_write_regardless(r, k, s) ==
    {[ok |-> o.ok, n |-> o.n, snk |-> o.snk, buf |-> o.buf, called |-> TRUE]
     : o \in write(r.buf, k, s)}

\* The write step of transfuse_rec: `buffer.write(&mut sink)?`, not reached
\* when the read step has returned an Err.
transfuse_write(r, k, s) ==
    IF r.ok
    THEN {[ok |-> o.ok, n |-> o.n, snk |-> o.snk, buf |-> o.buf,
           called |-> TRUE]
          : o \in write(r.buf, k, s)}
    ELSE {[ok |-> FALSE, n |-> 0, snk |-> s, buf |-> r.buf, called |-> FALSE]}

\* transfuse of lib.rs, the loop without the flag: compact, read, write in
\* every iteration, Ok(total) on a double zero, otherwise again with
\* total + written; the outcomes [ok, total, buf, src, snk] it can end with
RECURSIVE lib_transfuse(_, _, _, _, _, _, _)
lib_transfuse(kd, tot, b, k, p, sk, s) ==
    LET b1 == compact(kd, b)
    IN UNION {
         IF ~r.ok
         THEN {[ok |-> FALSE, total |-> 0, buf |-> r.buf, src |-> r.src,
                snk |-> s]}
         ELSE UNION {
                IF ~w.ok
                THEN {[ok |-> FALSE, total |-> 0, buf |-> w.buf,
                       src |-> r.src, snk |-> w.snk]}
                ELSE IF r.n = 0 /\ w.n = 0
                THEN {[ok |-> TRUE, total |-> tot, buf |-> w.buf,
                       src |-> r.src, snk |-> w.snk]}
                ELSE lib_transfuse(kd, tot + w.n, w.buf, k, r.src, sk, w.snk)
                : w \in write(r.buf, sk, s)}
         : r \in read(b1, k, p)}

\* no frame can be numbered higher: every frame but the last reads or writes
FrameCap == 2 * MaxLen + 2 * MaxSnk + 2

NoRun == [frames |-> 0, invoked |-> FALSE, destLen |-> 0, read |-> 0,
          write |-> 0, offerLen |-> 0, srcCalls |-> 0, zeroNE |-> FALSE,
          acceptedAll |-> TRUE, readSum |-> 0, writeSum |-> 0,
          snkCalled |-> FALSE, errBy |-> "none", readPos |-> 0]

NoRet == [ok |-> TRUE, n |-> 0, view |-> <<>>]

\* ------------------------------------------------------ EachConsecutive
None == [some |-> FALSE, buf |-> new(<<>>)]

Some(b) == [some |-> TRUE, buf |-> b]

\* an end of upstream that places the window whether it is empty or not
ec_at_end_placing_always(b, p, into, target) ==
    [ok |-> TRUE, n |-> target + 1, ec |-> None, src |-> p,
     into |-> [into EXCEPT ![target + 1] = b], up |-> 0,
     end |-> IF is_empty(b) THEN "empty" ELSE "partial"]

\* an end of upstream that puts an empty window back
ec_at_end_putting_back(b, p, into, target) ==
    IF is_empty(b)
    THEN [ok |-> TRUE, n |-> target, ec |-> Some(b), src |-> p, into |-> into,
          up |-> 0, end |-> "empty"]
    ELSE [ok |-> TRUE, n |-> target + 1, ec |-> None, src |-> p,
          into |-> [into EXCEPT ![target + 1] = b], up |-> 0, end |-> "partial"]

\* an end of upstream that drops a partly filled window
ec_at_end_dropping_partial(b, p, into, target) ==
    [ok |-> TRUE, n |-> target, ec |-> None, src |-> p, into |-> into,
     up |-> 0, end |-> IF is_empty(b) THEN "empty" ELSE "partial"]

\* an end of upstream that keeps a partly filled window for a later call
ec_at_end_keeping_partial(b, p, into, target) ==
    IF is_empty(b)
    THEN [ok |-> TRUE, n |-> target, ec |-> None, src |-> p, into |-> into,
          up |-> 0, end |-> "empty"]
    ELSE [ok |-> TRUE, n |-> target, ec |-> Some(b), src |-> p, into |-> into,
          up |-> 0, end |-> "partial"]

\* upstream returned 0 to a window that is not full: an empty window is
\* dropped, a partly filled one is placed as the last item
ec_at_end(b, p, into, target) ==
    IF is_empty(b)
    THEN [ok |-> TRUE, n |-> target, ec |-> None, src |-> p, into |-> into,
          up |-> 0, end |-> "empty"]
    ELSE [ok |-> TRUE, n |-> target + 1, ec |-> None, src |-> p,
          into |-> [into EXCEPT ![target + 1] = b], up |-> 0, end |-> "partial"]

\* a full destination that drops the window in progress
ec_dest_full_dropping(b, p, into, target) ==
    [ok |-> TRUE, n |-> target, ec |-> None, src |-> p, into |-> into,
     up |-> 0, end |-> "dest"]

\* a full destination that puts the window back emptied
ec_dest_full_clearing(b, p, into, target) ==
    [ok |-> TRUE, n |-> target, ec |-> Some(clear(b)), src |-> p,
     into |-> into, up |-> 0, end |-> "dest"]

\* the destination has no slot left: the window is put back for later calls
ec_dest_full(b, p, into, target) ==
    [ok |-> TRUE, n |-> target, ec |-> Some(b), src |-> p, into |-> into,
     up |-> 0, end |-> "dest"]

\* a failed read of upstream that puts the window back
ec_read_failed_putting_back(b, p, into, target) ==
    [ok |-> FALSE, n |-> 0, ec |-> Some(b), src |-> p, into |-> into,
     up |-> 0, end |-> "error"]

\* `buf.read(&mut *source)?` on an Err: the call returns it at once; the
\* window, taken out of the option, is dropped with what it holds, and the
\* slots already written stay written
ec_read_failed(b, p, into, target) ==
    [ok |-> FALSE, n |-> 0, ec |-> None, src |-> p, into |-> into,
     up |-> 0, end |-> "error"]

\* the loop of EachConsecutive::source, from a window b taken out of the
\* option: the outcomes [ok, n, ec, src, into, up, end] it can end with;
\* up counts the calls of upstream, end names the way the loop was left
RECURSIVE ec_loop(_, _, _, _, _)
ec_loop(b, k, p, into, target) ==
    IF target >= Len(into)
    THEN {ec_dest_full(b, p, into, target)}
    ELSE IF is_full(b)
    THEN ec_loop(clear(b), k, p, [into EXCEPT ![target + 1] = b], target + 1)
    ELSE UNION {{[o EXCEPT !.up = @ + 1] :
                 o \in IF ~r.ok
                       THEN {ec_read_failed(r.buf, r.src, into, target)}
                       ELSE IF r.n = 0
                       THEN {ec_at_end(r.buf, r.src, into, target)}
                       ELSE ec_loop(r.buf, k, r.src, into, target)}
                : r \in read(b, k, p)}

\* EachConsecutive::source
ec_source(e, k, p, into) ==
    IF e.some
    THEN ec_loop(e.buf, k, p, into, 0)
    ELSE {[ok |-> TRUE, n |-> 0, ec |-> None, src |-> p, into |-> into,
           up |-> 0, end |-> "done"]}

\* a flow that has not been called
NoCall == [up |-> 0, end |-> "none", done |-> "no", doneAt |-> 0,
           emitted |-> <<>>, ds |-> <<>>]

\* what a call that ended as o leaves in the history: the calls of upstream
\* it made, how it ended, the first ending that was final and the call it
\* came in, the batches reported so far, the destination sizes so far
Observe(o, d, final) ==
    [up |-> o.up,
     end |-> o.end,
     done |-> IF fl.done = "no" /\ o.end \in final THEN o.end ELSE fl.done,
     doneAt |-> IF fl.done = "no" /\ o.end \in final THEN calls + 1
                                                       ELSE fl.doneAt,
     emitted |-> fl.emitted \o [i \in 1..o.n |-> as_read(o.into[i])],
     ds |-> Append(fl.ds, d)]

\* ------------------------------------------------------------- Chunked
\* an end of upstream that hands out the short window
chunk_at_end_flushing(b, p, into, idx) ==
    IF ~is_empty(b)
    THEN [ok |-> TRUE, n |-> idx + 1, buf |-> clear(b), src |-> p,
          into |-> [into EXCEPT ![idx + 1] = b], up |-> 0, end |-> "eos"]
    ELSE [ok |-> TRUE, n |-> idx, buf |-> b, src |-> p, into |-> into,
          up |-> 0, end |-> "eos"]

\* an end of upstream that clears the short window when it reports it
chunk_at_end_discarding(b, p, into, idx) ==
    IF ~is_empty(b)
    THEN [ok |-> FALSE, n |-> 0, buf |-> clear(b), src |-> p, into |-> into,
          up |-> 0, end |-> "broken_pipe"]
    ELSE [ok |-> TRUE, n |-> idx, buf |-> b, src |-> p, into |-> into,
          up |-> 0, end |-> "eos"]

\* an end of upstream mid-window that reports the windows already written
chunk_at_end_reporting(b, p, into, idx) ==
    IF ~is_empty(b)
    THEN [ok |-> idx >= 1, n |-> idx, buf |-> b, src |-> p, into |-> into,
          up |-> 0, end |-> "broken_pipe"]
    ELSE [ok |-> TRUE, n |-> idx, buf |-> b, src |-> p, into |-> into,
          up |-> 0, end |-> "eos"]

\* upstream returned 0 and the window is not full: broken_pipe_error when
\* it holds something, Ok(sink_idx) when it is empty
chunk_at_end(b, p, into, idx) ==
    IF ~is_empty(b)
    THEN [ok |-> FALSE, n |-> 0, buf |-> b, src |-> p, into |-> into,
          up |-> 0, end |-> "broken_pipe"]
    ELSE [ok |-> TRUE, n |-> idx, buf |-> b, src |-> p, into |-> into,
          up |-> 0, end |-> "eos"]

\* Source::read of Chunked: both loops, from the buffer b the struct holds;
\* the outcomes [ok, n, buf, src, into, up, end] a call can end with.
\* buffer.read, is_full, is_empty and clear of crate::Buffer are those of
\* the Buffer modelled above; the cloner is Clone::clone.
RECURSIVE chunk_read(_, _, _, _, _)
chunk_read(b, k, p, into, idx) ==
    IF idx >= Len(into)
    THEN {[ok |-> TRUE, n |-> idx, buf |-> b, src |-> p, into |-> into,
           up |-> 0, end |-> "dest"]}
    ELSE UNION {{[o EXCEPT !.up = @ + 1] :
                 o \in IF ~r.ok
                       THEN {[ok |-> FALSE, n |-> 0, buf |-> r.buf,
                              src |-> r.src, into |-> into, up |-> 0,
                              end |-> "error"]}
                       ELSE IF is_full(r.buf)
                       THEN chunk_read(clear(r.buf), k, r.src,
                                       [into EXCEPT ![idx + 1] = r.buf], idx + 1)
                       ELSE IF r.n = 0
                       THEN {chunk_at_end(r.buf, r.src, into, idx)}
                       ELSE chunk_read(r.buf, k, r.src, into, idx)}
                : r \in read(b, k, p)}

\* ------------------------------------------------- buffer2: SpannedBuffer
\* Compactor for (): slice.copy_within(area, dest)
Copy_compact(slice, s, e, dest) ==
    [panic |-> FALSE,
     slice |-> [i \in 1..Len(slice) |->
                  IF i > dest /\ i <= dest + (e - s) THEN slice[s + i - dest]
                                                     ELSE slice[i]]]

\* the loop of Compactor for ((),): dest is slice[dest_off..start], src is
\* slice[start..]; iteration i indexes dest[i], which panics at or beyond
\* the length of dest, then src[i], and swaps them
RECURSIVE Move_loop(_, _, _, _, _)
Move_loop(slice, s, dest_off, n, i) ==
    IF i >= n THEN [panic |-> FALSE, slice |-> slice]
    ELSE IF i >= s - dest_off \/ i >= Len(slice) - s
    THEN [panic |-> TRUE, slice |-> slice]
    ELSE Move_loop(swap(slice, dest_off + i, s + i), s, dest_off, n, i + 1)

\* Compactor for ((),)
Move_compact(slice, s, e, dest_off) == Move_loop(slice, s, dest_off, e - s, 0)

\* Buffer::compact of SpannedBuffer: C::compact(self.as_mut(), self.span(), 0);
\* the span is read, never written
SpannedBuffer_compact(c, b) ==
    LET r == IF c = "Copy" THEN Copy_compact(b.data, b.span[1], b.span[2], 0)
                           ELSE Move_compact(b.data, b.span[1], b.span[2], 0)
    IN [panic |-> r.panic, buf |-> [data |-> r.slice, span |-> b.span]]

\* --------------------------------------------------------------- Init
\* the external view offered to copy_from and to read outside transfuse
View == [i \in 1..MaxView |-> 20 + i]

\* Buffer::from / from_clone / from_copy over a zeroed store, optionally
\* followed by as_source over a populated one
InitBuffer ==
    /\ kind \in {"from", "from_clone", "from_copy"}
    /\ \E n \in 0..MaxLen :
          buf \in {new(Zeros(n)), as_source(new([i \in 1..n |-> 10 + i]))}
    /\ pc = "idle"
    /\ source_done = FALSE
    /\ total = 0
    /\ op = "new"
    /\ pre = buf
    /\ it = NoRun
    /\ ret = NoRet

\* no windowing flow is in use
NoFlow ==
    /\ ec = None
    /\ slots = <<>>
    /\ calls = 0
    /\ fl = NoCall

\* Buffer operations alone: producers and consumers are views passed per call
Init ==
    /\ InitBuffer
    /\ NoFlow
    /\ srcKind = "buffer"
    /\ src = new(<<>>)
    /\ snkKind = "buffer"
    /\ snk = new(<<>>)
    /\ start = [buf |-> buf, src |-> src, snk |-> snk]

\* transfuse: a producer holding 1..n and an empty consumer of some capacity;
\* the working buffer has a copy strategy, which transfuse requires
InitT ==
    /\ InitBuffer
    /\ NoFlow
    /\ kind # "from"
    /\ srcKind \in {"buffer", "read"}
    /\ \E n \in 0..MaxSrc : src = as_source(new(Iota(n)))
    /\ snkKind \in {"buffer", "write"}
    /\ \E n \in 0..MaxSnk : snk = new(Zeros(n))
    /\ start = [buf |-> buf, src |-> src, snk |-> snk]

\* ------------------------------------------------------------ actions
Idle(name, r) ==
    /\ pc = "idle"
    /\ op' = name
    /\ pre' = buf
    /\ ret' = r
    /\ UNCHANGED <<kind, src, srcKind, snk, snkKind, pc, source_done, total,
                   start, it, ec, slots, calls, fl>>

\* buffer.read(view): a producer of kind k over an external view
ReadFrom(k) ==
    \E d \in 0..MaxView :
    \E r \in read(buf, k, as_source(new(Slice(View, 0, d)))) :
        /\ buf' = r.buf
        /\ Idle("read", [ok |-> r.ok, n |-> r.n, view |-> <<>>])

\* buffer.write(view): a consumer of kind k and of some capacity
WriteTo(k) ==
    \E d \in 0..MaxView :
    \E w \in write(buf, k, new(Zeros(d))) :
        /\ buf' = w.buf
        /\ Idle("write", [ok |-> w.ok, n |-> w.n, view |-> <<>>])

\* producers and consumers that cannot fail
Read == \E k \in {"buffer", "read"} : ReadFrom(k)


Write == \E k \in {"buffer", "write"} : WriteTo(k)

\* a reader or a writer that may fail
ReadIo == ReadFrom("io")

WriteIo == WriteTo("io")

\* the destination handed to copy_into, as it is before the call
Dest(d) == [i \in 1..d |-> 30 + i]

\* buffer.copy_into(dest): ret.view is dest after the call
CopyInto ==
    /\ kind # "from"
    /\ \E d \in 0..MaxView :
          LET r == copy_into(kind, buf, Dest(d))
          IN /\ buf' = r.buf
             /\ Idle("copy_into", [ok |-> TRUE, n |-> r.n, view |-> r.into])

\* buffer.copy_from(view): ret.view is the view offered
CopyFrom ==
    /\ kind # "from"
    /\ \E d \in 0..MaxView :
          LET r == copy_from(kind, buf, Slice(View, 0, d))
          IN /\ buf' = r.buf
             /\ Idle("copy_from",
                     [ok |-> TRUE, n |-> r.n, view |-> Slice(View, 0, d)])

Compact ==
    /\ buf' = compact(kind, buf)
    /\ Idle("compact", NoRet)

Clear ==
    /\ buf' = clear(buf)
    /\ Idle("clear", NoRet)

\* buffer.as_source(): the whole store becomes unread
AsSource ==
    /\ buf' = as_source(buf)
    /\ Idle("as_source", NoRet)

\* Buffer::transfuse: enters transfuse_rec(false, 0, self, source, sink)
Transfuse ==
    /\ pc = "idle"
    /\ kind # "from"
    /\ pc' = "rec"
    /\ source_done' = FALSE
    /\ total' = 0
    /\ op' = "transfuse"
    /\ pre' = buf
    /\ start' = [buf |-> buf, src |-> src, snk |-> snk]
    /\ it' = NoRun
    /\ ret' = NoRet
    /\ UNCHANGED <<buf, kind, src, srcKind, snk, snkKind, ec, slots, calls, fl>>

\* One frame of transfuse_rec: compact, read unless source_done, write, then
\* either return Ok(total) or recurse; an Err of either step is returned at
\* once and alone.
TransfuseRec ==
    /\ pc = "rec"
    /\ LET b1 == compact(kind, buf)
       IN \E r \in transfuse_read(source_done, b1, srcKind, src) :
          \E w \in transfuse_write(r, snkKind, snk) :
            LET t  == transfuse_tail(total, r.n, w.n)
                ok == r.ok /\ w.ok
            IN /\ buf' = w.buf
               /\ src' = r.src
               /\ snk' = w.snk
               /\ pc' = IF ~ok THEN "failed" ELSE IF t.done THEN "done" ELSE "rec"
               /\ source_done' = IF ok /\ ~t.done THEN t.source_done
                                                  ELSE source_done
               /\ total' = IF ok THEN t.total ELSE total
               /\ ret' = IF ok /\ t.done
                         THEN [ok |-> TRUE, n |-> t.total, view |-> <<>>]
                         ELSE [ok |-> ok, n |-> 0, view |-> <<>>]
               /\ it' = [frames |-> Min(it.frames + 1, FrameCap),
                         invoked |-> r.invoked,
                         destLen |-> IF r.invoked THEN free(b1) ELSE 0,
                         read |-> r.n,
                         write |-> w.n,
                         offerLen |-> available(r.buf),
                         srcCalls |-> it.srcCalls + (IF r.invoked THEN 1 ELSE 0),
                         zeroNE |-> it.zeroNE
                                    \/ (r.invoked /\ r.n = 0 /\ free(b1) > 0),
                         acceptedAll |-> it.acceptedAll
                                         /\ w.n = available(r.buf),
                         readSum |-> it.readSum + r.n,
                         writeSum |-> it.writeSum + w.n,
                         snkCalled |-> w.called,
                         errBy |-> IF ~r.ok THEN "source"
                                   ELSE IF ~w.ok THEN "sink" ELSE "none",
                         readPos |-> IF r.invoked THEN b1.span[1] ELSE 0]
    /\ op' = "transfuse_rec"
    /\ pre' = buf
    /\ UNCHANGED <<kind, srcKind, snkKind, start, ec, slots, calls, fl>>

\* the Buffer operations, called in any order
Next ==
    \/ Read
    \/ Write
    \/ CopyInto
    \/ CopyFrom
    \/ Compact
    \/ Clear

Spec == Init /\ [][Next]_vars

\* clear and as_source are the same code for every strategy: one constructor
\* stands for the three
InitC ==
    /\ Init
    /\ kind = "from_copy"

\* the Buffer operations and as_source, called in any order
NextC ==
    \/ Next
    \/ AsSource

SpecC == InitC /\ [][NextC]_vars

\* a transfuse run from any buffer state the operations can leave
NextT ==
    \/ Read
    \/ Write
    \/ Transfuse
    \/ TransfuseRec

SpecT == InitT /\ [][NextT]_vars

\* a producer that ends or never ends, and a consumer of finite capacity
InitL ==
    /\ InitBuffer
    /\ NoFlow
    /\ kind # "from"
    /\ srcKind \in {"buffer", "read", "repeat"}
    /\ \E n \in 0..MaxSrc :
          src = IF srcKind = "repeat" THEN new(<<>>) ELSE as_source(new(Iota(n)))
    /\ snkKind \in {"buffer", "write"}
    /\ \E n \in 0..MaxSnk : snk = new(Zeros(n))
    /\ start = [buf |-> buf, src |-> src, snk |-> snk]

NextL ==
    \/ Transfuse
    \/ TransfuseRec

\* transfuse_rec is a plain recursion: an entered frame runs to its end
SpecL == InitL /\ [][NextL]_vars /\ WF_vars(TransfuseRec)

\* a reader and a writer that may fail at any call
InitE ==
    /\ InitBuffer
    /\ NoFlow
    /\ kind # "from"
    /\ srcKind = "io"
    /\ \E n \in 0..MaxSrc : src = as_source(new(Iota(n)))
    /\ snkKind = "io"
    /\ \E n \in 0..MaxSnk : snk = new(Zeros(n))
    /\ start = [buf |-> buf, src |-> src, snk |-> snk]

NextE ==
    \/ ReadIo
    \/ WriteIo
    \/ Transfuse
    \/ TransfuseRec

SpecE == InitE /\ [][NextE]_vars

\* EachConsecutiveFlow(buf).flow(src): buf is the flow's buffer, the window
\* is its clone, and upstream holds 1..n
InitW ==
    /\ InitBuffer
    /\ srcKind \in {"buffer", "read", "io"}
    /\ \E n \in 0..MaxSrc : src = as_source(new(Iota(n)))
    /\ snkKind = "buffer"
    /\ snk = new(<<>>)
    /\ start = [buf |-> buf, src |-> src, snk |-> snk]
    /\ ec = Some(buf)
    /\ slots = <<>>
    /\ calls = 0
    /\ fl = NoCall

\* flow.source(into): into has d slots, each a clone of the flow's buffer;
\* the batches a call reports are the first n slots of an Ok(n)
EcSource ==
    /\ calls < MaxCalls
    /\ \E d \in 0..MaxSlots :
       \E o \in ec_source(ec, srcKind, src, [i \in 1..d |-> buf]) :
          /\ ec' = o.ec
          /\ src' = o.src
          /\ slots' = o.into
          /\ ret' = [ok |-> o.ok, n |-> o.n, view |-> <<>>]
          /\ fl' = Observe(o, d, {"empty", "partial", "error"})
    /\ calls' = calls + 1
    /\ op' = "ec_source"
    /\ UNCHANGED <<buf, kind, srcKind, snk, snkKind, pc, source_done, total,
                   pre, start, it>>

NextW == EcSource

SpecW == InitW /\ [][NextW]_vars

\* upstream.chunk_with_buffer(buf): upstream holds 1..n
InitK ==
    /\ InitBuffer
    /\ NoFlow
    /\ kind = "from_copy"
    /\ srcKind \in {"buffer", "read", "io"}
    /\ \E n \in 0..MaxSrc : src = as_source(new(Iota(n)))
    /\ snkKind = "buffer"
    /\ snk = new(<<>>)
    /\ start = [buf |-> buf, src |-> src, snk |-> snk]

\* chunked.read(into_sink): into_sink has d slots, each a clone of the
\* buffer the Chunked was built with
ChunkRead ==
    /\ calls < MaxCalls
    /\ \E d \in 0..MaxSlots :
       \E o \in chunk_read(buf, srcKind, src, [i \in 1..d |-> start.buf], 0) :
          /\ buf' = o.buf
          /\ src' = o.src
          /\ slots' = o.into
          /\ ret' = [ok |-> o.ok, n |-> o.n, view |-> <<>>]
          /\ fl' = Observe(o, d, {"eos", "broken_pipe", "error"})
    /\ calls' = calls + 1
    /\ op' = "chunk_read"
    /\ pre' = buf
    /\ UNCHANGED <<kind, srcKind, snk, snkKind, pc, source_done, total,
                   start, it, ec>>

NextK == ChunkRead

SpecK == InitK /\ [][NextK]_vars

\* A buffer between one producer and one consumer that live across calls:
\* a producer holding 1..n and an empty consumer of some capacity
InitS ==
    /\ InitBuffer
    /\ NoFlow
    /\ srcKind \in {"buffer", "read"}
    /\ \E n \in 0..MaxSrc : src = as_source(new(Iota(n)))
    /\ snkKind \in {"buffer", "write"}
    /\ \E n \in 0..MaxSnk : snk = new(Zeros(n))
    /\ start = [buf |-> buf, src |-> src, snk |-> snk]

\* buffer.read(&mut src)
ReadSrc ==
    /\ pc = "idle"
    /\ \E r \in read(buf, srcKind, src) :
          /\ buf' = r.buf
          /\ src' = r.src
          /\ ret' = [ok |-> r.ok, n |-> r.n, view |-> <<>>]
    /\ op' = "read"
    /\ pre' = buf
    /\ UNCHANGED <<kind, srcKind, snk, snkKind, pc, source_done, total,
                   start, it, ec, slots, calls, fl>>

\* buffer.write(&mut snk)
WriteSnk ==
    /\ pc = "idle"
    /\ \E w \in write(buf, snkKind, snk) :
          /\ buf' = w.buf
          /\ snk' = w.snk
          /\ ret' = [ok |-> w.ok, n |-> w.n, view |-> <<>>]
    /\ op' = "write"
    /\ pre' = buf
    /\ UNCHANGED <<kind, src, srcKind, snkKind, pc, source_done, total,
                   start, it, ec, slots, calls, fl>>

NextS ==
    \/ ReadSrc
    \/ WriteSnk
    \/ Compact
    \/ Clear

SpecS == InitS /\ [][NextS]_vars

\* position <= limit <= len: as_read and as_write slice the store by the
\* span and panic outside it
InSpan(b) == b.span[1] <= b.span[2] /\ b.span[2] <= len(b)

\* buffer.read(p) and buffer.write(s) with collaborators outside the contract
ReadOver == InSpan(buf) /\ ReadFrom("over")

WriteOver == InSpan(buf) /\ WriteTo("over")

\* the Buffer operations among collaborators that may over-report; an
\* operation that slices the store runs only while the span allows it
NextN ==
    \/ InSpan(buf) /\ (Read \/ Write \/ Compact)
    \/ ReadOver
    \/ WriteOver
    \/ Clear

SpecN == Init /\ [][NextN]_vars

\* buffer2: a Copy or Move SpannedBuffer in any state read and write leave,
\* 0 <= position <= limit <= len, over any store
InitB ==
    /\ kind \in {"Copy", "Move"}
    /\ \E n \in 0..MaxLen :
       \E d \in [1..n -> 1..MaxLen] :
       \E l \in 0..n :
       \E p \in 0..l : buf = [data |-> d, span |-> <<p, l>>]
    /\ pc = "idle"
    /\ source_done = FALSE
    /\ total = 0
    /\ op = "new"
    /\ pre = buf
    /\ it = NoRun
    /\ ret = NoRet
    /\ NoFlow
    /\ srcKind = "buffer"
    /\ src = new(<<>>)
    /\ snkKind = "buffer"
    /\ snk = new(<<>>)
    /\ start = [buf |-> buf, src |-> src, snk |-> snk]

\* buffer.compact() of a SpannedBuffer; a panic ends the run
SpannedCompact ==
    /\ pc = "idle"
    /\ LET r == SpannedBuffer_compact(kind, buf)
       IN /\ buf' = r.buf
          /\ ret' = [ok |-> ~r.panic, n |-> 0, view |-> <<>>]
          /\ pc' = IF r.panic THEN "panicked" ELSE "idle"
    /\ op' = "SpannedBuffer::compact"
    /\ pre' = buf
    /\ UNCHANGED <<kind, src, srcKind, snk, snkKind, source_done, total,
                   start, it, ec, slots, calls, fl>>

NextB == SpannedCompact

SpecB == InitB /\ [][NextB]_vars

\* A buffer constructed empty, between one producer and one consumer, under
\* read, write and compact in any order and then a transfuse
InitF ==
    /\ InitS
    /\ buf = new(Zeros(len(buf)))

NextF ==
    \/ ReadSrc
    \/ WriteSnk
    \/ Compact
    \/ Transfuse
    \/ TransfuseRec

SpecF == InitF /\ [][NextF]_vars

\* ================================================================ claims

\* C1: in every state reached from an empty or as-source construction by
\* read, write, copy_into, copy_from, compact and clear with conforming
\* producers and consumers, 0 <= position <= limit <= len.
C1_OffsetInvariant ==
    /\ 0 <= buf.span[1]
    /\ buf.span[1] <= buf.span[2]
    /\ buf.span[2] <= len(buf)

C1_Witness ==
    /\ op = "compact"
    /\ pre.span[1] = 2
    /\ pre.span[2] = 3
    /\ buf.span[2] < len(buf)

\* C2: for both compaction strategies, as_read() after compact() is the same
\* sequence, element for element, as as_read() before it.
C2_CompactKeepsUnread ==
    op = "compact" => as_read(buf) = as_read(pre)

\* the unread area overlaps its destination
C2_Witness ==
    /\ op = "compact"
    /\ pre.span[1] >= 1
    /\ available(pre) > pre.span[1]
    /\ as_read(buf)[1] # as_read(buf)[2]

\* C3: compact() leaves position = 0 and limit = old limit - old position;
\* available is unchanged and free becomes len - available.
C3_CompactOffsets ==
    op = "compact" =>
        /\ buf.span = <<0, pre.span[2] - pre.span[1]>>
        /\ available(buf) = available(pre)
        /\ free(buf) = len(buf) - available(pre)

C3_Witness ==
    /\ op = "compact"
    /\ pre.span[1] > 0
    /\ pre.span[2] > pre.span[1]
    /\ pre.span[2] = len(pre)

\* C4: compact() on a buffer whose position is 0 changes neither the offsets
\* nor any element of the backing store, for both strategies; hence a second
\* compact changes nothing after a first.
C4_CompactNoOp ==
    op = "compact" =>
        /\ pre.span[1] = 0 => buf = pre
        /\ compact(kind, buf) = buf

C4_Witness ==
    /\ op = "compact"
    /\ pre.span[1] = 0
    /\ pre.span[2] > 0
    /\ pre.span[2] < len(pre)
    /\ pre.data[len(pre)] # 0

\* ------------------------------------------------- transfuse claims
\* the run started with an empty working buffer of capacity >= 1 between a
\* Buffer-backed producer and an empty Buffer-backed consumer
BufferToBuffer ==
    /\ srcKind = "buffer"
    /\ snkKind = "buffer"
    /\ is_empty(start.buf)
    /\ len(start.buf) >= 1
    /\ start.snk.span = <<0, 0>>

N0 == available(start.src)

C0 == len(start.snk)

B0 == len(start.buf)

\* C5: with a Buffer-backed source of N elements, an empty Buffer-backed sink
\* of capacity C and an empty working buffer of capacity B >= 1, transfuse
\* returns min(N, C) and the sink's unread region is the first min(N, C)
\* source elements in order.
C5_TransfuseDelivers ==
    (pc = "done" /\ BufferToBuffer) =>
        /\ total = Min(N0, C0)
        /\ as_read(snk) = Slice(as_read(start.src), 0, Min(N0, C0))

C5_Witness ==
    /\ pc = "done"
    /\ BufferToBuffer
    /\ N0 > C0
    /\ C0 > B0
    /\ total = C0

\* C6: under the same set-up with C < N, when transfuse returns the working
\* buffer's unread region holds the min(B, N - C) source elements that follow
\* the delivered ones and the source retains the other N - C - min(B, N - C);
\* when N <= C the working buffer ends empty.
C6_StalemateStaging ==
    (pc = "done" /\ BufferToBuffer) =>
        IF C0 < N0
        THEN /\ as_read(buf) = Slice(as_read(start.src), C0, C0 + Min(B0, N0 - C0))
             /\ as_read(src) = Slice(as_read(start.src), C0 + Min(B0, N0 - C0), N0)
             /\ available(src) = N0 - C0 - Min(B0, N0 - C0)
        ELSE is_empty(buf)

C6_Witness ==
    /\ pc = "done"
    /\ BufferToBuffer
    /\ C0 >= 1
    /\ N0 - C0 > B0
    /\ available(buf) = B0
    /\ available(src) >= 1

\* C7: once the producer has returned Ok(0) against a non-empty destination,
\* no later frame of the same run invokes it.
C7_NoSourceAfterZero ==
    [][it.zeroNE => it'.srcCalls = it.srcCalls]_vars

\* a frame skipped the producer after its zero, while the consumer, which
\* had refused earlier, went on accepting
C7_Witness ==
    /\ it.zeroNE
    /\ ~it.invoked
    /\ it.write > 0
    /\ snkKind = "write"

\* C8: the read step of a frame is skipped only if the producer has earlier
\* in the run returned Ok(0) against a non-empty destination; a zero got
\* from a zero-length free region does not mark it exhausted.  (A producer
\* that holds nothing more is let through as exhausted as well, so that only
\* a skipped producer that still has elements refutes this.)
C8_SkipOnlyAfterZero ==
    (it.frames >= 1 /\ ~it.invoked) => (it.zeroNE \/ is_empty(src))

\* C9: transfuse stops only when nothing more can be moved: when it returns
\* Ok with a working buffer of capacity >= 1, either the consumer returned 0
\* for a non-empty offer in the last frame, or the buffer is empty and the
\* producer has returned Ok(0) against a non-empty destination.  (Read in
\* the code's favour: a consumer with no room left counts as refusing, and a
\* producer that holds nothing more counts as exhausted.)
C9_StopsOnlyWhenStuck ==
    (pc = "done" /\ len(buf) >= 1) =>
        \/ (it.offerLen > 0 /\ it.write = 0)
        \/ is_full(snk)
        \/ (is_empty(buf) /\ (it.zeroNE \/ is_empty(src)))

\* C10: with an initially empty working buffer of capacity >= 1 and a
\* consumer that accepted everything it was offered, transfuse returns the
\* number of elements the producer held, short counts or not.
C10_TransfuseTotal ==
    (pc = "done" /\ is_empty(start.buf) /\ len(start.buf) >= 1 /\ it.acceptedAll)
        => total = available(start.src)

\* the producer gave a short count into a roomier destination
C10_Witness ==
    /\ pc = "done"
    /\ is_empty(start.buf)
    /\ it.acceptedAll
    /\ srcKind = "read"
    /\ len(start.buf) >= 2
    /\ total >= 3
    /\ it.frames = total + 1

\* C11: the value transfuse returns on success is the sum of the counts the
\* consumer's sink returned over the frames of the run; the counts of the
\* read step are not part of it.
C11_ReturnsSumOfWrites ==
    pc = "done" => (ret.ok /\ ret.n = it.writeSum)

\* a run that read more than it wrote, and wrote something
C11_Witness ==
    /\ pc = "done"
    /\ it.frames >= 2
    /\ it.writeSum > 0
    /\ it.readSum > it.writeSum

\* C13 as stated: every frame either writes out something or is the final
\* one, and the frames number at most the elements written out plus one.
\* Runs into a consumer without any capacity are left out of the statement.
C13_WriteOrFinal ==
    (it.frames >= 1 /\ len(snk) > 0) =>
        /\ (it.write > 0 \/ pc = "done")
        /\ it.frames <= it.writeSum + 1

\* C13, amended: every frame either reads in something, writes out something
\* or is the final one; the frames number at most the elements read in plus
\* the elements written out plus one.
C13_ProgressOrFinal ==
    it.frames >= 1 =>
        /\ (it.read > 0 \/ it.write > 0 \/ pc = "done")
        /\ it.frames <= it.readSum + it.writeSum + 1

\* a finished run that meets the amended bound and exceeds the stated one
C13_Witness ==
    /\ pc = "done"
    /\ it.frames = it.readSum + it.writeSum + 1
    /\ it.frames > it.writeSum + 1
    /\ it.writeSum > 0
    /\ len(snk) > 0

\* the frame counter never saturates
FramesBelowCap == it.frames < FrameCap

\* C12: with a producer that ends or a consumer of finite capacity, and a
\* working buffer of finite capacity, every run of transfuse reaches its
\* double-zero return; a frame entered with a full working buffer and a
\* consumer that has no room left is the last one, whatever the producer.
C12_Terminates ==
    /\ (pc = "rec") ~> (pc = "done")
    /\ [][(pc = "rec" /\ is_full(compact(kind, buf)) /\ is_full(snk))
            => pc' = "done"]_vars

\* a never-ending producer, stopped by a full consumer and a full buffer
C12_Witness ==
    /\ pc = "done"
    /\ srcKind = "repeat"
    /\ it.frames >= 3
    /\ is_full(buf)
    /\ is_full(snk)
    /\ total > 0

\* C14: when the producer or the consumer fails during transfuse, the run
\* ends with that error: the caller gets the error and no count, a failure
\* of the producer leaves the consumer uncalled in that frame, and nothing
\* is called afterwards.
C14_FirstErrorReturned ==
    /\ [](pc = "failed" =>
            /\ ~ret.ok
            /\ ret.n = 0
            /\ it.errBy \in {"source", "sink"}
            /\ (it.errBy = "source" => (it.invoked /\ ~it.snkCalled))
            /\ (it.errBy = "sink" => it.snkCalled))
    /\ [][pc = "failed" => UNCHANGED <<buf, src, snk, it, ret>>]_vars

\* the producer fails after earlier frames have moved something
C14_Witness ==
    /\ pc = "failed"
    /\ it.errBy = "source"
    /\ it.frames >= 2
    /\ total > 0
    /\ ~ret.ok

\* C15: a failing read or write leaves both offsets where they were; when
\* transfuse ends on a producer error the buffer is the compacted one, and
\* when it ends on a consumer error the buffer is compacted, its unread
\* region kept, with limit advanced by the read count of that frame.
C15_FailureAdvancesNothing ==
    /\ (op \in {"read", "write"} /\ ~ret.ok) => buf = pre
    /\ (pc = "failed" /\ it.errBy = "source") => buf = compact(kind, pre)
    /\ (pc = "failed" /\ it.errBy = "sink") =>
          /\ buf.span = <<0, available(pre) + it.read>>
          /\ Slice(as_read(buf), 0, available(pre)) = as_read(pre)

\* the consumer fails in a frame that compacted and read something
C15_Witness ==
    /\ pc = "failed"
    /\ it.errBy = "sink"
    /\ pre.span[1] > 0
    /\ available(pre) > 0
    /\ it.read > 0

\* C16: a successful read changes limit by the count and nothing at or
\* before the former limit: position and every element below the former
\* limit are as before. A successful write changes position by the count
\* and nothing else: limit and every element of the store are as before.
C16_ReadWriteFrame ==
    /\ (op = "read" /\ ret.ok) =>
          /\ buf.span = <<pre.span[1], pre.span[2] + ret.n>>
          /\ len(buf) = len(pre)
          /\ Slice(buf.data, 0, pre.span[2]) = Slice(pre.data, 0, pre.span[2])
    /\ (op = "write" /\ ret.ok) =>
          /\ buf.span = <<pre.span[1] + ret.n, pre.span[2]>>
          /\ buf.data = pre.data

\* a read that filled part of the free region behind a non-empty unread one
C16_Witness ==
    /\ op = "read"
    /\ ret.ok
    /\ ret.n > 0
    /\ pre.span[1] > 0
    /\ available(pre) > 0

\* C17: copy_into with a destination of length d returns n = min(d,
\* available), puts the first n unread elements in order into dest[0..n],
\* leaves dest[n..] as it was, and advances position by n, nothing else;
\* on an empty buffer it returns 0.
C17_BufferAsProducer ==
    op = "copy_into" =>
        LET d == Len(ret.view)
            n == Min(d, available(pre))
        IN /\ ret.n = n
           /\ Slice(ret.view, 0, n) = Slice(as_read(pre), 0, n)
           /\ Slice(ret.view, n, d) = Slice(Dest(d), n, d)
           /\ buf.span = <<pre.span[1] + n, pre.span[2]>>
           /\ buf.data = pre.data
           /\ as_read(buf) = Slice(as_read(pre), n, available(pre))
           /\ (is_empty(pre) => ret.n = 0)

\* the destination is longer than what is unread
C17_Witness ==
    /\ op = "copy_into"
    /\ Len(ret.view) = 2
    /\ available(pre) = 1
    /\ pre.span[1] > 0
    /\ ret.n = 1

\* C18: copy_from with a view of length s returns n = min(s, free), puts
\* the first n offered elements right after the unread region and advances
\* limit by n; a full buffer returns 0 and keeps its unread region.
C18_BufferAsConsumer ==
    op = "copy_from" =>
        LET n == Min(Len(ret.view), free(pre))
        IN /\ ret.n = n
           /\ as_read(buf) = as_read(pre) \o Slice(ret.view, 0, n)
           /\ buf.span = <<pre.span[1], pre.span[2] + n>>
           /\ (is_full(pre) => (ret.n = 0 /\ as_read(buf) = as_read(pre)))

\* more is offered than there is room for
C18_Witness ==
    /\ op = "copy_from"
    /\ Len(ret.view) = 2
    /\ free(pre) = 1
    /\ available(pre) >= 1
    /\ ret.n = 1

\* C19: clear() leaves position = limit = 0, so available = 0 and free =
\* len, and as_source() leaves position = 0 and limit = len; neither
\* changes an element of the store.
C19_ClearAndAsSource ==
    /\ op = "clear" =>
          /\ buf.span = <<0, 0>>
          /\ available(buf) = 0
          /\ free(buf) = len(buf)
          /\ buf.data = pre.data
    /\ op = "as_source" =>
          /\ buf.span = <<0, len(pre)>>
          /\ buf.data = pre.data

\* a clear of a buffer with consumed and unread elements
C19_Witness ==
    /\ op = "clear"
    /\ pre.span[1] > 0
    /\ available(pre) > 0
    /\ buf.data[1] # 0

\* the number of windows of w elements that n elements fill or start
Ceil(n, w) == (n + w - 1) \div w

\* C20: with an upstream of N elements, a fresh window of capacity W >= 1
\* and a destination of at least ceil(N/W) + 1 slots, the first call
\* returns ceil(N/W); batch i holds upstream elements i*W up to
\* min((i+1)*W, N) in order, so every batch but the last is full, none is
\* empty, and the slots after the last batch are as they were.
C20_Batches ==
    LET N == available(start.src)
        W == len(buf)
    IN (/\ op = "ec_source"
        /\ calls = 1
        /\ ret.ok
        /\ buf.span = <<0, 0>>
        /\ W >= 1
        /\ Len(slots) >= Ceil(N, W) + 1) =>
          /\ ret.n = Ceil(N, W)
          /\ \A i \in 0..(Ceil(N, W) - 1) :
                /\ as_read(slots[i + 1])
                     = Slice(as_read(start.src), i * W, Min((i + 1) * W, N))
                /\ ~is_empty(slots[i + 1])
                /\ (i < Ceil(N, W) - 1 => is_full(slots[i + 1]))
          /\ (N % W # 0 => available(slots[Ceil(N, W)]) = N % W)
          /\ \A i \in (Ceil(N, W) + 1)..Len(slots) : slots[i] = buf

\* three elements in windows of two from a stream::Read upstream: a full
\* batch, a last one of one element, and a third slot left alone
C20_Witness ==
    /\ op = "ec_source"
    /\ srcKind = "read"
    /\ calls = 1
    /\ ret.ok
    /\ buf.span = <<0, 0>>
    /\ len(buf) = 2
    /\ available(start.src) = 3
    /\ Len(slots) = 3
    /\ ret.n = 2
    /\ as_read(slots[2]) = <<3>>
    /\ slots[3] = buf

\* a destination of d slots as it is handed to the flow
Blank(d) == [i \in 1..d |-> buf]

\* C21: once upstream has returned 0 to an empty window the option holds no
\* window, and every later call, whatever its destination, returns Ok(0),
\* writes no slot, does not call upstream and emits nothing.
C21_DoneForGood ==
    /\ [](fl.done = "empty" => ~ec.some)
    /\ [][fl.done = "empty" =>
            /\ ret'.ok
            /\ ret'.n = 0
            /\ fl'.up = 0
            /\ src' = src
            /\ slots' = Blank(Len(slots'))
            /\ fl'.emitted = fl.emitted
            /\ ~ec'.some]_vars

\* a call with a destination after the flow has emitted and become Done
C21_Witness ==
    /\ fl.done = "empty"
    /\ calls > fl.doneAt
    /\ fl.end = "done"
    /\ Len(slots) >= 1
    /\ Len(fl.emitted) >= 1

\* C22: when upstream returns 0 to a window that is neither empty nor
\* full, the call places the window into the current slot, counts it, and
\* leaves the option empty; no later call emits anything.
C22_FlushOnce ==
    /\ [](fl.end = "partial" =>
            /\ ret.ok
            /\ ret.n >= 1
            /\ ~is_empty(slots[ret.n])
            /\ ~is_full(slots[ret.n])
            /\ fl.emitted[Len(fl.emitted)] = as_read(slots[ret.n])
            /\ ~ec.some)
    /\ [][fl.done = "partial" =>
            /\ ret'.ok
            /\ ret'.n = 0
            /\ fl'.up = 0
            /\ fl'.emitted = fl.emitted
            /\ ~ec'.some]_vars

\* a short last batch after a full one, and a later call that emits nothing
C22_Witness ==
    /\ fl.done = "partial"
    /\ calls > fl.doneAt
    /\ Len(slots) >= 1
    /\ Len(fl.emitted) = 2
    /\ Len(fl.emitted[2]) < Len(fl.emitted[1])

\* the batches one call emits, from the state the flow was built in, into a
\* destination large enough for all of them
EcReference ==
    LET big == [i \in 1..(available(start.src) + 2) |-> start.buf]
        o   == CHOOSE x \in ec_source(Some(start.buf), "buffer", start.src, big)
                   : TRUE
    IN [i \in 1..o.n |-> as_read(o.into[i])]

IsPrefix(s, t) ==
    /\ Len(s) <= Len(t)
    /\ \A i \in 1..Len(s) : s[i] = t[i]

\* C23: with a window of capacity >= 1, whatever the split into calls and
\* the destination sizes, the batches emitted so far are a prefix of what
\* one call with a large destination emits, a flow that has ended without
\* an upstream error has emitted all of them, and a fresh window over N
\* elements yields at most ceil(N/W) batches.
C23_SplitCallsEmitTheSame ==
    len(buf) >= 1 =>
        /\ IsPrefix(fl.emitted, EcReference)
        /\ (~ec.some /\ fl.done # "error") => fl.emitted = EcReference
        /\ buf.span = <<0, 0>> =>
              Len(fl.emitted) <= Ceil(available(start.src), len(buf))

\* three batches over three calls with one slot each time but the last
C23_Witness ==
    /\ len(buf) = 1
    /\ buf.span = <<0, 0>>
    /\ calls = 3
    /\ fl.done = "empty"
    /\ fl.doneAt = 3
    /\ ret.n = 1
    /\ fl.emitted = <<<<1>>, <<2>>, <<3>>>>

\* C24: every batch emitted has between 1 and len elements available,
\* whatever window buffer the flow was built with.
C24_BatchSizes ==
    \A i \in 1..Len(fl.emitted) :
        /\ 1 <= Len(fl.emitted[i])
        /\ Len(fl.emitted[i]) <= len(buf)

\* every call so far was given one slot
OneSlotPerCall == \A i \in 1..Len(fl.ds) : fl.ds[i] = 1

\* C25: a Chunked with a fresh buffer of capacity W >= 1 over N elements,
\* read one slot per call without an upstream error: each of the first
\* N div W calls returns Ok(1) with the next W elements, the call after
\* them returns the BrokenPipe error when N mod W # 0 and Ok(0) when
\* N mod W = 0, and no window shorter than W is ever handed out.
C25_StrictChunks ==
    LET N == available(start.src)
        W == len(start.buf)
        F == N \div W
    IN (/\ op = "chunk_read"
        /\ start.buf.span = <<0, 0>>
        /\ W >= 1
        /\ OneSlotPerCall
        /\ fl.done # "error") =>
          /\ calls <= F =>
                /\ ret.ok
                /\ ret.n = 1
                /\ as_read(slots[1])
                     = Slice(as_read(start.src), (calls - 1) * W, calls * W)
                /\ Len(fl.emitted) = calls
          /\ calls = F + 1 =>
                /\ ret.n = 0
                /\ slots = <<start.buf>>
                /\ IF N % W # 0 THEN ~ret.ok /\ fl.end = "broken_pipe"
                                ELSE ret.ok /\ fl.end = "eos"
          /\ \A i \in 1..Len(fl.emitted) : Len(fl.emitted[i]) = W

\* three elements in windows of two: one full window, then the error
C25_Witness ==
    /\ op = "chunk_read"
    /\ start.buf.span = <<0, 0>>
    /\ len(start.buf) = 2
    /\ available(start.src) = 3
    /\ srcKind = "read"
    /\ fl.ds = <<1, 1>>
    /\ fl.emitted = <<<<1, 2>>>>
    /\ fl.end = "broken_pipe"
    /\ ~ret.ok

\* C26: once a call has reported the broken pipe, every later call with a
\* destination of one slot or more that meets no upstream error reports it
\* again and hands out no window.
C26_BrokenPipeStays ==
    [][(fl.done = "broken_pipe" /\ Len(slots') >= 1 /\ fl'.end # "error") =>
          /\ ~ret'.ok
          /\ fl'.end = "broken_pipe"
          /\ fl'.emitted = fl.emitted
          /\ slots' = [i \in 1..Len(slots') |-> start.buf]
          /\ buf' = buf]_vars

\* the error is reported by two calls in a row
C26_Witness ==
    /\ fl.done = "broken_pipe"
    /\ calls > fl.doneAt
    /\ fl.end = "broken_pipe"
    /\ Len(slots) >= 1
    /\ Len(fl.emitted) >= 1
    /\ fl.up >= 1

\* C27: on every slice and area a Buffer with the swap-based strategy hands
\* to compact_within (0 <= start <= end <= len), every split point is at
\* most len, dest[i] lies inside dest, src[start - 1] lies inside src, so
\* slice[start + i] has start + i <= len - 1; with start = 0 or start = end
\* nothing is accessed.
C27_SwapInBounds ==
    (op = "compact" /\ CompactStrategy(kind) = "SNone") =>
        LET n == len(pre)
            s == pre.span[1]
            e == pre.span[2]
            A == SNone_accesses(n, s, e)
        IN /\ \A a \in A :
                /\ a.split <= n
                /\ a.dest < a.split
                /\ a.src < n - a.split
                /\ a.split + a.src = s + a.dest
                /\ s + a.dest <= n - 1
           /\ (s = 0 \/ s = e) => A = {}
           /\ Cardinality(A) = IF s = 0 THEN 0 ELSE e - s

\* the area ends at the end of the slice and is longer than its offset
C27_Witness ==
    /\ op = "compact"
    /\ CompactStrategy(kind) = "SNone"
    /\ pre.span[1] = 1
    /\ pre.span[2] = len(pre)
    /\ len(pre) = 3

\* how often v occurs in s
Count(s, v) == Cardinality({i \in 1..Len(s) : s[i] = v})

\* C28: compact with the swap-based strategy leaves the store a permutation
\* of what it was, with the former unread region, in order, at its front.
C28_SwapPermutes ==
    (op = "compact" /\ CompactStrategy(kind) = "SNone") =>
        /\ Len(buf.data) = Len(pre.data)
        /\ \A i \in 1..Len(pre.data) :
              Count(buf.data, pre.data[i]) = Count(pre.data, pre.data[i])
        /\ Slice(buf.data, 0, available(pre)) = as_read(pre)

\* three different elements, the unread two overlapping their destination
C28_Witness ==
    /\ op = "compact"
    /\ CompactStrategy(kind) = "SNone"
    /\ pre.span = <<1, 3>>
    /\ pre.data[1] # pre.data[2]
    /\ pre.data[2] # pre.data[3]
    /\ pre.data[1] # pre.data[3]
    /\ buf.data[3] = pre.data[1]

\* C29: whenever a frame of transfuse calls the producer, the buffer has
\* been compacted: position is 0 and the destination offered has length
\* len - available of the buffer the frame started with.
C29_CompactedBeforeRead ==
    (op = "transfuse_rec" /\ it.invoked) =>
        /\ it.readPos = 0
        /\ it.destLen = len(pre) - available(pre)

\* the frame started with consumed elements in front of unread ones
C29_Witness ==
    /\ op = "transfuse_rec"
    /\ it.invoked
    /\ pre.span[1] > 0
    /\ available(pre) > 0
    /\ it.destLen > free(pre)
    /\ it.read > 0

\* position = limit = len
Stuck(b) == b.span = <<len(b), len(b)>>

\* C30: from a buffer with position = limit = len, a read and a write
\* return 0 and leave the buffer, the producer and the consumer as they
\* were; compact and clear leave the whole store free.
C30_StuckUntilCompact ==
    [][Stuck(buf) =>
          /\ op' \in {"read", "write"} =>
                /\ ret'.ok
                /\ ret'.n = 0
                /\ buf' = buf
                /\ src' = src
                /\ snk' = snk
          /\ op' \in {"compact", "clear"} =>
                /\ free(buf') = len(buf')
                /\ ~Stuck(buf') \/ len(buf') = 0]_vars

\* a read on a stuck buffer whose producer still holds elements, with a
\* consumer that still has room
C30_Witness ==
    /\ op = "read"
    /\ Stuck(pre)
    /\ len(pre) >= 1
    /\ available(src) > 0
    /\ free(snk) > 0
    /\ ret.n = 0

\* what a run leaves behind: the total returned, what the producer still
\* holds and what the consumer has been given
Left(tot, p, s) == [total |-> tot, src |-> p, snk |-> s]

\* C31: a transfuse that has returned Ok has returned a total, left a
\* producer and left a consumer that the loop reading in every iteration can
\* return and leave as well, from the same buffer, producer and consumer.
C31_FlagIsOptimization ==
    (pc = "done") =>
        Left(total, src, snk) \in
            {Left(o.total, o.src, o.snk) :
                o \in {x \in lib_transfuse(kind, 0, start.buf, srcKind,
                                            start.src, snkKind, start.snk) :
                          x.ok}}

\* C32: what the consumer has accepted, followed by the buffer's unread
\* region, is what the producer has produced, in order: nothing is
\* duplicated, dropped or reordered by read, write, compact or transfuse.
C32_Fifo ==
    as_read(snk) \o as_read(buf) = Slice(src.data, 0, src.span[1])

\* plain writes and then a transfuse of several frames have delivered
\* elements, and one is still buffered
C32_Witness ==
    /\ pc = "done"
    /\ it.frames >= 2
    /\ total >= 1
    /\ available(snk) > total
    /\ available(buf) >= 1
    /\ src.span[1] >= 3

\* C33: with a window of capacity >= 1, a call of EachConsecutive::source
\* returns a count of at most the number of slots it was given; when it
\* returns Ok(0) to a destination with slots the option holds no window
\* afterwards; and once the option holds no window every call returns
\* Ok(0) and leaves it so.
C33_HonoursContract ==
    /\ []((op = "ec_source" /\ len(buf) >= 1 /\ ret.ok) =>
            /\ ret.n <= Len(slots)
            /\ (ret.n = 0 /\ Len(slots) >= 1) => ~ec.some)
    /\ [][(len(buf) >= 1 /\ ~ec.some) =>
            /\ ret'.ok
            /\ ret'.n = 0
            /\ ~ec'.some]_vars

\* a call with slots, after batches were emitted, that returns Ok(0) and
\* becomes Done in doing so
C33_Witness ==
    /\ len(buf) >= 1
    /\ fl.end = "empty"
    /\ fl.doneAt = calls
    /\ ret.ok
    /\ ret.n = 0
    /\ Len(slots) >= 1
    /\ Len(fl.emitted) >= 1

\* C34: a call of EachConsecutive::source with an empty destination returns
\* Ok(0), does not call upstream, and leaves the option, the window in it
\* and upstream as they were.
C34_EmptyDestinationIsNoOp ==
    [][(op' = "ec_source" /\ Len(slots') = 0) =>
          /\ ret'.ok
          /\ ret'.n = 0
          /\ fl'.up = 0
          /\ ec' = ec
          /\ src' = src
          /\ fl'.emitted = fl.emitted
          /\ fl'.done = fl.done]_vars

\* an empty destination given to a flow whose window holds elements
C34_Witness ==
    /\ op = "ec_source"
    /\ Len(slots) = 0
    /\ ec.some
    /\ available(ec.buf) >= 2
    /\ available(src) >= 1

\* C35: a call of EachConsecutive::source in which upstream fails returns
\* the error and reports no batch, also none it has placed in that call;
\* the option holds no window afterwards, and every later call returns
\* Ok(0), calls upstream no more and emits nothing.
C35_UpstreamErrorEnds ==
    /\ [](fl.end = "error" => (~ret.ok /\ ~ec.some))
    /\ [][fl'.end = "error" => fl'.emitted = fl.emitted]_vars
    /\ [][fl.done = "error" =>
            /\ ret'.ok
            /\ ret'.n = 0
            /\ fl'.up = 0
            /\ src' = src
            /\ fl'.emitted = fl.emitted
            /\ ~ec'.some]_vars

\* upstream failed after a batch was placed and more elements were staged,
\* and a later call with slots found the flow Done
C35_Witness ==
    /\ fl.done = "error"
    /\ calls > fl.doneAt
    /\ fl.end = "done"
    /\ Len(slots) >= 1
    /\ fl.emitted = <<>>
    /\ src.span[1] >= 2
    /\ available(src) >= 1

\* C36: a call of Chunked::read that meets the end of upstream mid-window
\* returns the BrokenPipe error and no count, however many full windows it
\* has completed: with W >= 1 those k windows are in the first k slots,
\* the other slots are untouched, and neither this call nor a later one
\* reports them.
C36_WindowsWrittenUnreported ==
    /\ [][(fl'.end = "broken_pipe" /\ len(buf) >= 1) =>
            LET W      == len(buf)
                pulled == available(src) - available(src')
                stream == as_read(buf) \o Slice(as_read(src), 0, pulled)
                k      == Len(stream) \div W
            IN /\ ~ret'.ok
               /\ ret'.n = 0
               /\ fl'.emitted = fl.emitted
               /\ k < Len(slots')
               /\ Len(stream) % W # 0
               /\ \A i \in 1..Len(slots') :
                     IF i <= k
                     THEN /\ is_full(slots'[i])
                          /\ as_read(slots'[i])
                               = Slice(stream, (i - 1) * W, i * W)
                     ELSE slots'[i] = start.buf]_vars
    /\ [][fl.done = "broken_pipe" => fl'.emitted = fl.emitted]_vars

\* the first call, with two slots, wrote one full window and then met the
\* end of upstream with one element staged
C36_Witness ==
    /\ calls = 1
    /\ fl.end = "broken_pipe"
    /\ ~ret.ok
    /\ Len(slots) >= 2
    /\ as_read(slots[1]) = <<1, 2>>
    /\ slots[2] = start.buf
    /\ as_read(buf) = <<3>>
    /\ fl.emitted = <<>>

\* C37: read adds the count the producer reports to limit and write adds
\* the count the consumer reports to position, unclamped: a producer that
\* reports more than the free length it was offered leaves limit > len, a
\* consumer that reports more than the available length it was offered
\* leaves position > limit.
C37_NoClamping ==
    /\ (op = "read" /\ ret.ok /\ InSpan(pre) /\ ret.n > free(pre)) =>
          /\ buf.span = <<pre.span[1], pre.span[2] + ret.n>>
          /\ buf.span[2] > len(buf)
    /\ (op = "write" /\ ret.ok /\ InSpan(pre) /\ ret.n > available(pre)) =>
          /\ buf.span = <<pre.span[1] + ret.n, pre.span[2]>>
          /\ buf.span[1] > buf.span[2]

\* a producer offered a free region of one or more elements reported more
C37_Witness ==
    /\ op = "read"
    /\ InSpan(pre)
    /\ free(pre) >= 1
    /\ ret.n > free(pre)
    /\ buf.span[2] > len(buf)

\* C38: compact of a SpannedBuffer, from every state with
\* 0 <= position <= limit <= len, makes no out-of-bounds access, leaves the
\* former unread region at the front of the store, position = 0 and
\* limit = old limit - old position.
C38_SpannedCompact ==
    (op = "SpannedBuffer::compact") =>
        /\ ret.ok
        /\ Slice(buf.data, 0, available(pre)) = as_read(pre)
        /\ buf.span = <<0, pre.span[2] - pre.span[1]>>

============================================================================
